---- MODULE Spec2Model ----
(***************************************************************************)
(* Model of the LangExtract entity extractor (ner_processor.py), the       *)
(* document ingestion (pdf_processor.py) and the Streamlit page (app.py).  *)
(*                                                                         *)
(* Text is a sequence of characters; a character is a one-element string   *)
(* or the name of a code point.  A Python value that may be None is the    *)
(* record [none, s].  A Python dict is a function whose DOMAIN is the set  *)
(* of its keys.                                                            *)
(***************************************************************************)
EXTENDS Integers, Sequences, FiniteSets, TLC

\* ------------------------------------------------------------------ bounds
MaxCleanLen == 4      \* longest text given to clean_text on its own
MaxTextLen == 1       \* longest text given to process_document
MaxExtractions == 2   \* most extractions in one answer of the model
MaxPages == 2         \* most pages (paragraphs) of an uploaded document
MaxBytes == 3         \* most bytes of an uploaded text file
MaxHistory == 6       \* most 'process' actions of one session

\* -------------------------------------------------------------- characters
PUA == "U+F8FF"
BOM == "U+FEFF"
ZWSP == "U+200B"

\* unwanted_chars, in the order the loop replaces them
unwanted_chars == <<PUA, BOM, ZWSP>>

\* characters for which str.isspace() holds (str.split() and str.strip()
\* with no argument use exactly these); U+FEFF and U+200B are not among them
Whitespace == {" ", "\n"}

Letters == {"a"}

Chars == Letters \cup Whitespace \cup {PUA, BOM, ZWSP}

IsSpace(c) == c \in Whitespace

\* ------------------------------------------------------------ Python values
None == [none |-> TRUE, s |-> <<>>]

Str(s) == [none |-> FALSE, s |-> s]

\* truthiness of an optional string: None and "" are falsy
Truthy(v) == ~v.none /\ v.s # <<>>

RECURSIVE SeqsUpTo(_, _)
SeqsUpTo(S, n) ==
  IF n = 0 THEN {<<>>}
  ELSE LET shorter == SeqsUpTo(S, n - 1)
       IN  shorter \cup {Append(t, c) : t \in {u \in shorter : Len(u) = n - 1}, c \in S}

\* -------------------------------------------------------- string operations
\* length of the leading run of non-whitespace characters of s
WordLen(s) ==
  IF \E i \in 1..Len(s) : IsSpace(s[i])
  THEN (CHOOSE i \in 1..Len(s) : IsSpace(s[i]) /\ \A j \in 1..(i - 1) : ~IsSpace(s[j])) - 1
  ELSE Len(s)

\* str.split(): the maximal runs of non-whitespace characters
RECURSIVE split(_)
split(s) ==
  IF s = <<>> THEN <<>>
  ELSE IF IsSpace(Head(s)) THEN split(Tail(s))
  ELSE LET n == WordLen(s)
       IN  <<SubSeq(s, 1, n)>> \o split(SubSeq(s, n + 1, Len(s)))

\* sep.join(words)
RECURSIVE join(_, _)
join(sep, words) ==
  IF words = <<>> THEN <<>>
  ELSE IF Len(words) = 1 THEN words[1]
  ELSE words[1] \o sep \o join(sep, Tail(words))

\* str.replace(ch, rep) for a single character ch and a single character rep
replace(s, ch, rep) == [i \in 1..Len(s) |-> IF s[i] = ch THEN rep ELSE s[i]]

\* str.strip(): leading and trailing whitespace removed
RECURSIVE lstrip(_)
lstrip(s) == IF s # <<>> /\ IsSpace(Head(s)) THEN lstrip(Tail(s)) ELSE s

RECURSIVE rstrip(_)
rstrip(s) ==
  IF s # <<>> /\ IsSpace(s[Len(s)]) THEN rstrip(SubSeq(s, 1, Len(s) - 1)) ELSE s

strip(s) == rstrip(lstrip(s))

\* the loop over unwanted_chars: each one replaced by a space, in order
RECURSIVE replace_unwanted(_, _)
replace_unwanted(s, chars) ==
  IF chars = <<>> THEN s
  ELSE replace_unwanted(replace(s, Head(chars), " "), Tail(chars))

\* NERProcessor.clean_text
clean_text(text) ==
  IF ~Truthy(text) THEN <<>>
  ELSE strip(replace_unwanted(join(<<" ">>, split(text.s)), unwanted_chars))

\* ------------------------------------------------------- the result mapping
\* the 14 keys of the entities dict, as the dict literal lists them
CategoryKeys ==
  {"names", "dates", "amounts", "locations", "organizations", "phones", "emails",
   "urls", "times", "positions", "id_numbers", "work_schedules", "notice_periods",
   "governing_laws"}

\* the if/elif chain of the conversion loop: <<extraction_class, key>>
ClassBranches ==
  << <<"name", "names">>, <<"date", "dates">>, <<"amount", "amounts">>,
     <<"location", "locations">>, <<"organization", "organizations">>,
     <<"phone", "phones">>, <<"email", "emails">>, <<"url", "urls">>,
     <<"time", "times">>, <<"position", "positions">>,
     <<"id_number", "id_numbers">>, <<"work_schedule", "work_schedules">>,
     <<"notice_period", "notice_periods">>, <<"governing_law", "governing_laws">> >>

\* entities = {'names': [], ...}
EmptyEntities == [k \in CategoryKeys |-> <<>>]

NoTextError == "No text to process"

NoKeyError ==
  "LangExtract API key is required for entity extraction. Please set LANGEXTRACT_API_KEY environment variable."

\* f'LangExtract extraction failed: {str(e)}', whatever e says
FailedError == "LangExtract extraction failed: <e>"

\* ErrorResult with 'governing_laws' left out of the dict literal
ErrorResult_short(msg) ==
  [k \in (CategoryKeys \ {"governing_laws"}) \cup {"error"} |->
     IF k = "error" THEN msg ELSE <<>>]

\* {'error': msg, 'names': [], ...}
ErrorResult(msg) ==
  [k \in CategoryKeys \cup {"error"} |-> IF k = "error" THEN msg ELSE <<>>]

\* --------------------------------------------------- the external model
\* an attribute the object does not have
Missing == "<missing>"

\* getattr(obj, attr, default)
getattr(obj, attr, default) == IF obj[attr] = Missing THEN default ELSE obj[attr]

\* the extractions an answer of the model is made of: recognised classes
\* (first and last branch of the chain), an unrecognised class, a missing
\* class, two texts, the empty text and a missing text
ModelClasses == {"name", "governing_law", "names", Missing}

ModelTexts == {"x", "y", ""}

Extractions ==
  [extraction_class : ModelClasses, extraction_text : ModelTexts]
    \cup {[extraction_class |-> "name", extraction_text |-> Missing]}

\* what lx.extract does when it is called: it raises, or it returns an
\* object without the attribute extractions, or one whose extractions are
\* iterated; fails_after = k >= 0 is an exception raised by the iteration
\* after k extractions were converted, -1 is an iteration that completes
NoResponse ==
  [raises |-> FALSE, has_extractions |-> FALSE, extractions |-> <<>>, fails_after |-> -1]

Responses ==
  {[NoResponse EXCEPT !.raises = TRUE], NoResponse}
    \cup UNION {{[raises |-> FALSE, has_extractions |-> TRUE, extractions |-> es,
                  fails_after |-> k] : k \in -1..Len(es)} :
                es \in SeqsUpTo(Extractions, MaxExtractions)}

\* -------------------------------------------------------- process_document
\* ConvertOne with insert(0, ...) in place of append
ConvertOne_prepend(entities, extraction) ==
  LET entity_class == getattr(extraction, "extraction_class", "unknown")
      entity_text == getattr(extraction, "extraction_text", "")
      taken == {i \in 1..Len(ClassBranches) :
                  ClassBranches[i][1] = entity_class /\ entity_text # ""}
  IN  IF taken = {} THEN entities
      ELSE LET i == CHOOSE j \in taken : \A l \in taken : j <= l
           IN  [entities EXCEPT ![ClassBranches[i][2]] = <<entity_text>> \o @]

\* ConvertOne without the "and entity_text" test of the branches
ConvertOne_any_text(entities, extraction) ==
  LET entity_class == getattr(extraction, "extraction_class", "unknown")
      entity_text == getattr(extraction, "extraction_text", "")
      taken == {i \in 1..Len(ClassBranches) : ClassBranches[i][1] = entity_class}
  IN  IF taken = {} THEN entities
      ELSE LET i == CHOOSE j \in taken : \A l \in taken : j <= l
           IN  [entities EXCEPT ![ClassBranches[i][2]] = Append(@, entity_text)]

\* one pass of the loop body: the branch of the chain that takes the extraction
ConvertOne(entities, extraction) ==
  LET entity_class == getattr(extraction, "extraction_class", "unknown")
      entity_text == getattr(extraction, "extraction_text", "")
      taken == {i \in 1..Len(ClassBranches) :
                  ClassBranches[i][1] = entity_class /\ entity_text # ""}
  IN  IF taken = {} THEN entities
      ELSE LET i == CHOOSE j \in taken : \A l \in taken : j <= l
           IN  [entities EXCEPT ![ClassBranches[i][2]] = Append(@, entity_text)]

\* for extraction in result.extractions: ...
RECURSIVE Convert(_, _)
Convert(entities, extractions) ==
  IF extractions = <<>> THEN entities
  ELSE Convert(ConvertOne(entities, Head(extractions)), Tail(extractions))

\* how a run of a function ends: it returns value, or it raises (value is
\* then what its local entities held); lx_text is the text lx.extract was
\* called with, None when it was not called
Returned(value, lx_text) == [raised |-> FALSE, value |-> value, lx_text |-> lx_text]

Raised(value, lx_text) == [raised |-> TRUE, value |-> value, lx_text |-> lx_text]

\* process_document_try with the API key tested before the empty text
process_document_try_key_first(text, key_available, response) ==
  LET cleaned_text == clean_text(text)
  IN  IF ~key_available THEN Returned(ErrorResult(NoKeyError), None)
      ELSE IF cleaned_text = <<>> THEN Returned(ErrorResult(NoTextError), None)
      ELSE IF response.raises THEN Raised(EmptyEntities, Str(cleaned_text))
      ELSE IF ~response.has_extractions THEN Returned(EmptyEntities, Str(cleaned_text))
      ELSE IF response.fails_after >= 0
           THEN Raised(Convert(EmptyEntities,
                               SubSeq(response.extractions, 1, response.fails_after)),
                       Str(cleaned_text))
      ELSE Returned(Convert(EmptyEntities, response.extractions), Str(cleaned_text))

\* the body of the try block of process_document
process_document_try(text, key_available, response) ==
  LET cleaned_text == clean_text(text)
  IN  IF cleaned_text = <<>> THEN Returned(ErrorResult(NoTextError), None)
      ELSE IF ~key_available THEN Returned(ErrorResult(NoKeyError), None)
      ELSE IF response.raises THEN Raised(EmptyEntities, Str(cleaned_text))
      ELSE IF ~response.has_extractions THEN Returned(EmptyEntities, Str(cleaned_text))
      ELSE IF response.fails_after >= 0
           THEN Raised(Convert(EmptyEntities,
                               SubSeq(response.extractions, 1, response.fails_after)),
                       Str(cleaned_text))
      ELSE Returned(Convert(EmptyEntities, response.extractions), Str(cleaned_text))

\* process_document whose handler marks the entities built so far as failed
process_document_partial(text, key_available, response) ==
  LET run == process_document_try(text, key_available, response)
  IN  IF run.raised
      THEN Returned([k \in CategoryKeys \cup {"error"} |->
                       IF k = "error" THEN FailedError ELSE run.value[k]],
                    run.lx_text)
      ELSE run

\* NERProcessor.process_document: the try block and its except Exception
process_document(text, key_available, response) ==
  LET run == process_document_try(text, key_available, response)
  IN  IF run.raised THEN Returned(ErrorResult(FailedError), run.lx_text) ELSE run

\* ---------------------------------------------------------- uploaded files
\* file names of the upload widget
FileNames ==
  { <<"a", ".", "p", "d", "f">>, <<"a", ".", "P", "D", "F">>,
    <<"a", ".", "d", "o", "c", "x">>, <<"a", ".", "t", "x", "t">>,
    <<"a", ".", "p", "d", "f", ".", "t", "x", "t">>, <<"a", ".", "e", "x", "e">>,
    <<"a">>, <<"p", "d", "f">>, <<"a", ".">> }

\* str.lower() on the letters of the names
ToLower == [c \in {"P", "D", "F"} |-> CASE c = "P" -> "p" [] c = "D" -> "d" [] c = "F" -> "f"]

lower(s) == [i \in 1..Len(s) |-> IF s[i] \in DOMAIN ToLower THEN ToLower[s[i]] ELSE s[i]]

\* name.split('.')[-1]: what follows the last dot, the whole name without one
last_part(name) ==
  LET dots == {i \in 1..Len(name) : name[i] = "."}
  IN  IF dots = {} THEN name
      ELSE SubSeq(name, (CHOOSE i \in dots : \A j \in dots : j <= i) + 1, Len(name))

\* file_extension = uploaded_file.name.split('.')[-1].lower()
file_extension(name) == lower(last_part(name))

\* a page of a PDF (page.get_text()) or a paragraph of a DOCX (paragraph.text):
\* its text, or an exception when it is read
PageTexts == {<<>>, <<"a">>}

Units == [fails : {FALSE}, text : PageTexts] \cup {[fails |-> TRUE, text |-> <<>>]}

\* what fitz.open / Document make of the stream: an exception, or a document
NoDoc == [opens |-> FALSE, units |-> <<>>]

Docs == {NoDoc} \cup {[opens |-> TRUE, units |-> us] : us \in SeqsUpTo(Units, MaxPages)}

\* bytes of a text file: 'a', ' ', 0xFF, 0xEF, 0xBB, 0xBF
ByteVals == {97, 32, 255, 239, 187, 191}

\* uploaded_file is None
NoUpload ==
  [none |-> TRUE, name |-> <<>>, read_fails |-> FALSE, bytes |-> <<>>, doc |-> NoDoc]

\* bytes.decode('utf-8') over ByteVals: one-byte characters, and the
\* three-byte characters that 0xEF starts with two continuation bytes
IsContinuation(b) == b \in 128..191

Utf8Char1(b) == CASE b = 97 -> "a" [] b = 32 -> " "

Utf8Char3(b1, b2, b3) ==
  LET cp == (b1 - 224) * 4096 + (b2 - 128) * 64 + (b3 - 128)
  IN  CASE cp = 65279 -> BOM
        [] cp = 65275 -> "U+FEFB"
        [] cp = 65531 -> "U+FFFB"
        [] cp = 65535 -> "U+FFFF"

RECURSIVE decode_utf8(_)
decode_utf8(bs) ==
  IF bs = <<>> THEN [ok |-> TRUE, text |-> <<>>]
  ELSE IF Head(bs) < 128
       THEN LET rest == decode_utf8(Tail(bs))
            IN  [ok |-> rest.ok, text |-> <<Utf8Char1(Head(bs))>> \o rest.text]
  ELSE IF Head(bs) = 239 /\ Len(bs) >= 3 /\ IsContinuation(bs[2]) /\ IsContinuation(bs[3])
       THEN LET rest == decode_utf8(SubSeq(bs, 4, Len(bs)))
            IN  [ok |-> rest.ok, text |-> <<Utf8Char3(bs[1], bs[2], bs[3])>> \o rest.text]
  ELSE [ok |-> FALSE, text |-> <<>>]

\* bytes.decode('utf-8-sig'): a leading EF BB BF is dropped, the rest is UTF-8
decode_utf8_sig(bs) ==
  IF Len(bs) >= 3 /\ SubSeq(bs, 1, 3) = <<239, 187, 191>>
  THEN decode_utf8(SubSeq(bs, 4, Len(bs)))
  ELSE decode_utf8(bs)

\* bytes.decode('windows-1256'): every byte is a character
Cp1256Char(b) ==
  CASE b = 97 -> "a" [] b = 32 -> " " [] b = 255 -> "U+06D2"
    [] b = 239 -> "U+00EF" [] b = 187 -> "U+00BB" [] b = 191 -> "U+061F"

decode_windows_1256(bs) ==
  [ok |-> TRUE, text |-> [i \in 1..Len(bs) |-> Cp1256Char(bs[i])]]

\* how a reader ends: value is an optional text (what it had accumulated when
\* it raised), reader the reader the file was handed to, error the st.error
ReturnedText(value, reader, error) ==
  [raised |-> FALSE, value |-> value, reader |-> reader, error |-> error]

RaisedText(value, reader) ==
  [raised |-> TRUE, value |-> value, reader |-> reader, error |-> "none"]

\* for page in ...: text += page_text + "\n"
RECURSIVE accumulate(_, _)
accumulate(text, units) ==
  IF units = <<>> THEN [raised |-> FALSE, text |-> text]
  ELSE IF Head(units).fails THEN [raised |-> TRUE, text |-> text]
  ELSE accumulate(text \o Head(units).text \o <<"\n">>, Tail(units))

\* the try block of extract_text_from_pdf
extract_text_from_pdf_try(pdf_file) ==
  IF pdf_file.read_fails \/ ~pdf_file.doc.opens THEN RaisedText(Str(<<>>), "pdf")
  ELSE LET acc == accumulate(<<>>, pdf_file.doc.units)
       IN  IF acc.raised THEN RaisedText(Str(acc.text), "pdf")
           ELSE ReturnedText(Str(strip(acc.text)), "pdf", "none")

\* extract_text_from_pdf whose handler returns the text read so far
extract_text_from_pdf_partial(pdf_file) ==
  LET run == extract_text_from_pdf_try(pdf_file)
  IN  IF run.raised
      THEN ReturnedText(Str(strip(run.value.s)), "pdf", "Error extracting text from PDF")
      ELSE run

\* PDFProcessor.extract_text_from_pdf
extract_text_from_pdf(pdf_file) ==
  LET run == extract_text_from_pdf_try(pdf_file)
  IN  IF run.raised THEN ReturnedText(None, "pdf", "Error extracting text from PDF")
      ELSE run

\* the try block of extract_text_from_docx
extract_text_from_docx_try(docx_file) ==
  IF docx_file.read_fails \/ ~docx_file.doc.opens THEN RaisedText(Str(<<>>), "docx")
  ELSE LET acc == accumulate(<<>>, docx_file.doc.units)
       IN  IF acc.raised THEN RaisedText(Str(acc.text), "docx")
           ELSE ReturnedText(Str(strip(acc.text)), "docx", "none")

\* PDFProcessor.extract_text_from_docx
extract_text_from_docx(docx_file) ==
  LET run == extract_text_from_docx_try(docx_file)
  IN  IF run.raised THEN ReturnedText(None, "docx", "Error extracting text from DOCX")
      ELSE run

\* txt_file.read() with the file position at pos: the bytes from there on
file_read(txt_file, pos) == SubSeq(txt_file.bytes, pos + 1, Len(txt_file.bytes))

\* the decodings extract_text_from_txt tries, in the order it tries them
TxtCodecs == <<"utf-8", "utf-8-sig", "windows-1256">>

\* data.decode(codec)
decode(codec, data) ==
  CASE codec = "utf-8" -> decode_utf8(data)
    [] codec = "utf-8-sig" -> decode_utf8_sig(data)
    [] codec = "windows-1256" -> decode_windows_1256(data)

\* one txt_file.read().decode(codec) with the file at position pos
attempt(txt_file, i, pos) ==
  LET data == file_read(txt_file, pos)
      decoded == decode(TxtCodecs[i], data)
  IN  [codec |-> TxtCodecs[i], data |-> data, ok |-> decoded.ok, text |-> decoded.text]

\* the nested try blocks without the seek(0) of the except clauses: a retry
\* reads from where the read before it left the file, its end
RECURSIVE txt_attempts_no_seek(_, _, _)
txt_attempts_no_seek(txt_file, i, pos) ==
  LET this == attempt(txt_file, i, pos)
  IN  IF this.ok \/ i = Len(TxtCodecs) THEN <<this>>
      ELSE <<this>> \o txt_attempts_no_seek(txt_file, i + 1, Len(txt_file.bytes))

\* the nested try blocks: attempt i with the file at position pos; a
\* UnicodeDecodeError leads to seek(0) and the next attempt
RECURSIVE txt_attempts(_, _, _)
txt_attempts(txt_file, i, pos) ==
  LET this == attempt(txt_file, i, pos)
  IN  IF this.ok \/ i = Len(TxtCodecs) THEN <<this>>
      ELSE <<this>> \o txt_attempts(txt_file, i + 1, 0)

\* the try block of extract_text_from_txt; the file is at position 0 when it
\* starts; a UnicodeDecodeError of the last decoding leaves the try block
extract_text_from_txt_try(txt_file) ==
  IF txt_file.read_fails THEN RaisedText(Str(<<>>), "txt")
  ELSE LET attempts == txt_attempts(txt_file, 1, 0)
           last == attempts[Len(attempts)]
       IN  IF last.ok THEN ReturnedText(Str(strip(last.text)), "txt", "none")
           ELSE RaisedText(Str(<<>>), "txt")

\* PDFProcessor.extract_text_from_txt
extract_text_from_txt(txt_file) ==
  LET run == extract_text_from_txt_try(txt_file)
  IN  IF run.raised THEN ReturnedText(None, "txt", "Error extracting text from TXT")
      ELSE run

\* PDFProcessor.process_uploaded_file
process_uploaded_file(uploaded_file) ==
  IF uploaded_file.none THEN ReturnedText(None, "none", "none")
  ELSE LET ext == file_extension(uploaded_file.name)
       IN  IF ext = <<"p", "d", "f">> THEN extract_text_from_pdf(uploaded_file)
           ELSE IF ext = <<"d", "o", "c", "x">> THEN extract_text_from_docx(uploaded_file)
           ELSE IF ext = <<"t", "x", "t">> THEN extract_text_from_txt(uploaded_file)
           ELSE ReturnedText(None, "none", "Unsupported file type")

\* ------------------------------------------------------------ the web page
\* 'text_preview': text_input[:100] + "..."
PreviewLen == 100

\* the sidebar lists extraction_history[-5:]
HistoryShown == 5

\* d[k] = v on a dict
Put(d, k, v) == [x \in DOMAIN d \cup {k} |-> IF x = k THEN v ELSE d[x]]

\* a session with no key
EmptySession == [x \in {} |-> FALSE]

\* initialize_session_state with a current_extraction entry set up as well
initialize_session_state_eager(session, key_available) ==
  LET s1 == IF "processor" \notin DOMAIN session
            THEN Put(session, "processor", [api_key_available |-> key_available])
            ELSE session
      s2 == IF "extraction_history" \notin DOMAIN s1
            THEN Put(s1, "extraction_history", <<>>)
            ELSE s1
  IN  IF "current_extraction" \notin DOMAIN s2
      THEN Put(s2, "current_extraction", EmptyEntities)
      ELSE s2

\* initialize_session_state; the processor is built by NERProcessor.__init__,
\* the processor class that ner_processor.py defines
initialize_session_state(session, key_available) ==
  LET s1 == IF "processor" \notin DOMAIN session
            THEN Put(session, "processor", [api_key_available |-> key_available])
            ELSE session
  IN  IF "extraction_history" \notin DOMAIN s1
      THEN Put(s1, "extraction_history", <<>>)
      ELSE s1

\* the keys display_extraction_results reads, in the order it reads them
DisplayKeys ==
  <<"contract_type", "names", "dates", "durations", "amounts", "locations",
    "phone_numbers", "word_count", "text_length", "language">>

\* what a tab shows: view is "info" (the prompt to process a text first),
\* "results", "report", an exception that ended the script run, or
\* "not rendered" when the run ended before the tab
Tab(view, key) == [view |-> view, key |-> key]

\* display_extraction_results: extracted_data[k] for the first k that is not
\* a key of the mapping raises KeyError
display_extraction_results(extracted_data) ==
  LET missing == {i \in 1..Len(DisplayKeys) : DisplayKeys[i] \notin DOMAIN extracted_data}
  IN  IF missing = {} THEN Tab("results", "")
      ELSE Tab("KeyError", DisplayKeys[CHOOSE i \in missing : \A j \in missing : i <= j])

\* with tabs[1]: ...
results_tab_of(session) ==
  IF "current_extraction" \in DOMAIN session
  THEN display_extraction_results(session["current_extraction"])
  ELSE Tab("info", "")

\* the methods of the processor class in ner_processor.py
ProcessorMethods == {"clean_text", "process_document"}

\* with tabs[2]: ..., reached only when the results tab raised nothing
report_tab_of(session) ==
  IF results_tab_of(session).view = "KeyError" THEN Tab("not rendered", "")
  ELSE IF "current_extraction" \in DOMAIN session
       THEN IF "format_extraction_summary" \in ProcessorMethods
            THEN Tab("report", "")
            ELSE Tab("AttributeError", "format_extraction_summary")
  ELSE Tab("info", "")

\* text[:n]
take(text, n) == SubSeq(text, 1, IF Len(text) < n THEN Len(text) ELSE n)

\* st.session_state.processor.process_document(text_input) as the page sees
\* it: raises is an exception leaving the call, which the except clause of
\* the process button provides for (the process_document of ner_processor.py
\* lets none out)
processor_call(text_input, key_available, response, raises) ==
  IF raises THEN Raised(EmptyEntities, None)
  ELSE process_document(Str(text_input), key_available, response)

\* store_extraction that keeps only the newest item in the history
store_extraction_latest_only(session, text_input, extracted_data, now) ==
  LET s1 == Put(session, "current_extraction", extracted_data)
      s2 == Put(s1, "current_text", text_input)
      history_item == [timestamp |-> now,
                       text_preview |-> take(text_input, PreviewLen) \o <<".", ".", ".">>,
                       original_text |-> text_input,
                       extraction_data |-> extracted_data]
  IN  [s2 EXCEPT !["extraction_history"] = <<history_item>>]

\* the body of the process button, after process_document has returned
store_extraction(session, text_input, extracted_data, now) ==
  LET s1 == Put(session, "current_extraction", extracted_data)
      s2 == Put(s1, "current_text", text_input)
      history_item == [timestamp |-> now,
                       text_preview |-> take(text_input, PreviewLen) \o <<".", ".", ".">>,
                       original_text |-> text_input,
                       extraction_data |-> extracted_data]
  IN  [s2 EXCEPT !["extraction_history"] = Append(@, history_item)]

\* reversed(extraction_history[-5:])
sidebar_items(history) ==
  LET n == Len(history)
      first == IF n > HistoryShown THEN n - HistoryShown + 1 ELSE 1
      shown == SubSeq(history, first, n)
  IN  [i \in 1..Len(shown) |-> shown[Len(shown) + 1 - i]]

\* the texts typed into the text area, and what the model answers
AppTexts == {<<"a">>, <<ZWSP>>, <<" ">>}

AppResponses ==
  {[NoResponse EXCEPT !.raises = TRUE],
   [raises |-> FALSE, has_extractions |-> TRUE,
    extractions |-> <<[extraction_class |-> "name", extraction_text |-> "x"]>>,
    fails_after |-> -1]}

\* ---------------------------------------------------------------- variables
VARIABLES
  ct_pc,               \* clean_text on its own: "input", "cleaned" or "recleaned"
  ct_in,               \* the text given to clean_text
  ct_first,            \* what the first call returned
  ct_out,              \* what the latest call returned
  api_key_available,   \* NERProcessor.api_key_available, set by __init__
  ner_pc,              \* process_document: "idle" or "returned"
  ner_text,            \* its argument text
  ner_response,        \* what lx.extract did in this call
  ner_result,          \* the mapping it returned
  ner_raised,          \* whether an exception left process_document
  lx_request,          \* the text lx.extract was called with, None if it was not
  file_pc,             \* process_uploaded_file: "idle" or "returned"
  uploaded_file,       \* its argument
  file_run,            \* how it ended: its value, the reader used, the st.error
  file_attempts,       \* the decodings the TXT reader tried, with what each read
  session_state,       \* st.session_state
  clock,               \* datetime.now()
  results_tab,         \* what the results tab showed in the last script run
  report_tab,          \* what the report tab showed in the last script run
  process_returns,     \* 'process' actions whose process_document returned
  last_run             \* what the last script run did, and on which text

ctVars == <<ct_pc, ct_in, ct_first, ct_out>>

nerVars ==
  <<api_key_available, ner_pc, ner_text, ner_response, ner_result, ner_raised, lx_request>>

fileVars == <<file_pc, uploaded_file, file_run, file_attempts>>

appVars ==
  <<session_state, clock, results_tab, report_tab, process_returns, last_run>>

vars == <<ctVars, nerVars, fileVars, appVars>>

\* ------------------------------------------------- clean_text as a function
CleanInputs == {None} \cup {Str(t) : t \in SeqsUpTo(Chars, MaxCleanLen)}

CtIdle ==
  /\ ct_pc = "input"
  /\ ct_in = None
  /\ ct_first = <<>>
  /\ ct_out = <<>>

CtInit ==
  /\ ct_pc = "input"
  /\ ct_in \in CleanInputs
  /\ ct_first = <<>>
  /\ ct_out = <<>>

\* ----------------------------------------------------------- NERProcessor
TextInputs == {None} \cup {Str(t) : t \in SeqsUpTo(Chars, MaxTextLen)}

\* before a call of process_document
NerIdle ==
  /\ ner_pc = "idle"
  /\ ner_text = None
  /\ ner_response = NoResponse
  /\ ner_result = EmptyEntities
  /\ ner_raised = FALSE
  /\ lx_request = None

\* NERProcessor.__init__: bool(os.getenv('LANGEXTRACT_API_KEY'))
NerInit ==
  /\ api_key_available \in BOOLEAN
  /\ NerIdle

NerParked ==
  /\ api_key_available = FALSE
  /\ NerIdle

\* ------------------------------------------------------------ PDFProcessor
\* the uploads: what the reader chosen for the name does not read is left out
ReaderOf(name) ==
  LET ext == file_extension(name)
  IN  IF ext \in {<<"p", "d", "f">>, <<"d", "o", "c", "x">>} THEN "document"
      ELSE IF ext = <<"t", "x", "t">> THEN "text"
      ELSE "none"

Uploads ==
  {NoUpload}
    \cup {[NoUpload EXCEPT !.none = FALSE, !.name = n] : n \in FileNames}
    \cup {[NoUpload EXCEPT !.none = FALSE, !.name = n, !.read_fails = TRUE] :
            n \in {m \in FileNames : ReaderOf(m) # "none"}}
    \cup {[NoUpload EXCEPT !.none = FALSE, !.name = n, !.doc = d] :
            n \in {m \in FileNames : ReaderOf(m) = "document"}, d \in Docs}
    \cup {[NoUpload EXCEPT !.none = FALSE, !.name = n, !.bytes = b] :
            n \in {m \in FileNames : ReaderOf(m) = "text"},
            b \in SeqsUpTo(ByteVals, MaxBytes)}

NoFileRun == ReturnedText(None, "none", "none")

FileIdle ==
  /\ file_pc = "idle"
  /\ uploaded_file = NoUpload
  /\ file_run = NoFileRun
  /\ file_attempts = <<>>

\* one call of process_uploaded_file
ProcessUploadedFile ==
  /\ file_pc = "idle"
  /\ \E f \in Uploads :
       /\ uploaded_file' = f
       /\ file_run' = process_uploaded_file(f)
       /\ file_attempts' =
            IF file_run'.reader = "txt" /\ ~f.read_fails THEN txt_attempts(f, 1, 0) ELSE <<>>
  /\ file_pc' = "returned"
  /\ UNCHANGED <<ctVars, nerVars, appVars>>

\* the caller takes the text; the next upload can be processed
NextUpload ==
  /\ file_pc = "returned"
  /\ file_pc' = "idle"
  /\ uploaded_file' = NoUpload
  /\ file_run' = NoFileRun
  /\ file_attempts' = <<>>
  /\ UNCHANGED <<ctVars, nerVars, appVars>>

\* ------------------------------------------------------------------- main
\* the first script run of a session
AppInit ==
  /\ \E key_available \in BOOLEAN :
       session_state = initialize_session_state(EmptySession, key_available)
  /\ clock = 0
  /\ results_tab = results_tab_of(session_state)
  /\ report_tab = report_tab_of(session_state)
  /\ process_returns = 0
  /\ last_run = [kind |-> "first", text |-> <<>>]

AppParked ==
  /\ session_state = initialize_session_state(EmptySession, FALSE)
  /\ clock = 0
  /\ results_tab = Tab("info", "")
  /\ report_tab = Tab("info", "")
  /\ process_returns = 0
  /\ last_run = [kind |-> "first", text |-> <<>>]

\* the script run in which the process button is pressed on text_input (every
\* run starts with initialize_session_state, which finds its two keys set)
ProcessButton ==
  /\ \E text_input \in AppTexts, response \in AppResponses \cup {NoResponse},
        raises \in BOOLEAN :
       LET key_available == session_state["processor"].api_key_available
           run == processor_call(text_input, key_available, response, raises)
       IN  /\ strip(text_input) # <<>>
           /\ run.raised \/ Len(session_state["extraction_history"]) < MaxHistory
           /\ IF raises THEN response = NoResponse
              ELSE run.lx_text.none <=> response = NoResponse
           /\ session_state' =
                IF run.raised THEN session_state
                ELSE store_extraction(initialize_session_state(session_state, FALSE),
                                      text_input, run.value, clock + 1)
           /\ process_returns' = IF run.raised THEN process_returns ELSE process_returns + 1
           /\ clock' = IF run.raised THEN clock ELSE clock + 1
           /\ last_run' = [kind |-> IF run.raised THEN "raised" ELSE "returned",
                           text |-> text_input]
  /\ results_tab' = results_tab_of(session_state')
  /\ report_tab' = report_tab_of(session_state')
  /\ UNCHANGED <<ctVars, nerVars, fileVars>>

\* the script run in which 'use this text' is pressed on the i-th sidebar item
UseHistoryText ==
  /\ \E i \in 1..Len(sidebar_items(session_state["extraction_history"])) :
       LET item == sidebar_items(session_state["extraction_history"])[i]
       IN  /\ session_state' =
                Put(initialize_session_state(session_state, FALSE), "current_text",
                    item.original_text)
           /\ last_run' = [kind |-> "use", text |-> item.original_text]
  /\ results_tab' = results_tab_of(session_state')
  /\ report_tab' = report_tab_of(session_state')
  /\ UNCHANGED <<clock, process_returns>>
  /\ UNCHANGED <<ctVars, nerVars, fileVars>>

\* clean_text(text)
CleanText ==
  /\ ct_pc = "input"
  /\ ct_out' = clean_text(ct_in)
  /\ ct_first' = ct_out'
  /\ ct_pc' = "cleaned"
  /\ UNCHANGED ct_in
  /\ UNCHANGED <<nerVars, fileVars, appVars>>

\* clean_text(clean_text(text))
CleanAgain ==
  /\ ct_pc = "cleaned"
  /\ ct_out' = clean_text(Str(ct_out))
  /\ ct_pc' = "recleaned"
  /\ UNCHANGED <<ct_in, ct_first>>
  /\ UNCHANGED <<nerVars, fileVars, appVars>>

\* one call of process_document, with what the external model does in it
ProcessDocument ==
  /\ ner_pc = "idle"
  /\ \E text \in TextInputs, response \in Responses :
       LET run == process_document(text, api_key_available, response)
       IN  /\ run.lx_text.none => response = NoResponse
           /\ ner_text' = text
           /\ ner_response' = response
           /\ ner_result' = run.value
           /\ ner_raised' = run.raised
           /\ lx_request' = run.lx_text
  /\ ner_pc' = "returned"
  /\ UNCHANGED api_key_available
  /\ UNCHANGED <<ctVars, fileVars, appVars>>

\* the caller takes the result; the processor is ready for the next call
NextCall ==
  /\ ner_pc = "returned"
  /\ ner_pc' = "idle"
  /\ ner_text' = None
  /\ ner_response' = NoResponse
  /\ ner_result' = EmptyEntities
  /\ ner_raised' = FALSE
  /\ lx_request' = None
  /\ UNCHANGED api_key_available
  /\ UNCHANGED <<ctVars, fileVars, appVars>>

\* ------------------------------------------------------------ specifications
InitClean == CtInit /\ NerParked /\ FileIdle /\ AppParked

NextClean == CleanText \/ CleanAgain

SpecClean == InitClean /\ [][NextClean]_vars

InitNER == NerInit /\ CtIdle /\ FileIdle /\ AppParked

NextNER == ProcessDocument \/ NextCall

SpecNER == InitNER /\ [][NextNER]_vars

InitFile == FileIdle /\ CtIdle /\ NerParked /\ AppParked

NextFile == ProcessUploadedFile \/ NextUpload

SpecFile == InitFile /\ [][NextFile]_vars

InitApp == AppInit /\ CtIdle /\ NerParked /\ FileIdle

NextApp == ProcessButton \/ UseHistoryText

SpecApp == InitApp /\ [][NextApp]_vars

\* =============================================================== properties
\* process_document has returned, by its last return statement
Completed == ner_pc = "returned" /\ "error" \notin DOMAIN ner_result

\* the extractions the conversion loop went through
Received == IF ner_response.has_extractions THEN ner_response.extractions ELSE <<>>

\* the recognised singular class name of each category
SingularClass ==
  [names |-> "name", dates |-> "date", amounts |-> "amount", locations |-> "location",
   organizations |-> "organization", phones |-> "phone", emails |-> "email",
   urls |-> "url", times |-> "time", positions |-> "position",
   id_numbers |-> "id_number", work_schedules |-> "work_schedule",
   notice_periods |-> "notice_period", governing_laws |-> "governing_law"]

\* an extraction of a recognised class with a non-empty text
Qualifies(e, k) ==
  e.extraction_class = SingularClass[k] /\ e.extraction_text \notin {"", Missing}

\* ---------------------------------------------------------------- C1
\* C1: process_document returns a mapping and lets no exception out, whatever
\* the text and whatever the external model does; when the mapping has the
\* key 'error', every one of its 14 entity lists is empty.
C1_ErrorMeansNoEntities ==
  ner_pc = "returned" =>
    /\ ~ner_raised
    /\ "error" \in DOMAIN ner_result =>
         \A k \in CategoryKeys : k \in DOMAIN ner_result /\ ner_result[k] = <<>>

\* an exception raised after an entity had been appended
C1_Witness ==
  /\ ner_pc = "returned"
  /\ ner_response.fails_after >= 1
  /\ \E i \in 1..ner_response.fails_after, k \in CategoryKeys :
       Qualifies(ner_response.extractions[i], k)
  /\ "error" \in DOMAIN ner_result

\* ---------------------------------------------------------------- C2
\* C2: lx.extract is called only with a non-empty cleaned text and with the
\* API key present at construction; otherwise the mapping carries an error
\* and the model is not called; a text that is None, empty, only whitespace
\* or only artifact characters gives 'No text to process', key or no key.
\* (a text mixing whitespace and artifact characters is empty in this sense too)
EmptyInput(text) ==
  \/ text.none
  \/ \A i \in 1..Len(text.s) : text.s[i] \in Whitespace \cup {PUA, BOM, ZWSP}

C2_ModelCalledOnlyWithTextAndKey ==
  ner_pc = "returned" =>
    /\ ~lx_request.none =>
         /\ api_key_available
         /\ clean_text(ner_text) # <<>>
         /\ lx_request.s = clean_text(ner_text)
    /\ lx_request.none =>
         "error" \in DOMAIN ner_result /\ ner_result["error"] \in {NoTextError, NoKeyError}
    /\ EmptyInput(ner_text) =>
         /\ lx_request.none
         /\ "error" \in DOMAIN ner_result
         /\ ner_result["error"] = NoTextError

\* an artifact-only text given to a processor that has its key
C2_Witness ==
  /\ ner_pc = "returned"
  /\ api_key_available
  /\ ner_text = Str(<<ZWSP>>)
  /\ lx_request.none
  /\ ner_result["error"] = NoTextError

\* ---------------------------------------------------------------- C3
\* C3: no category list of a returned mapping holds the same string twice.
C3_NoDuplicates ==
  ner_pc = "returned" =>
    \A k \in CategoryKeys :
      \A i, j \in 1..Len(ner_result[k]) : i # j => ner_result[k][i] # ner_result[k][j]

\* ---------------------------------------------------------------- C4
\* C4: every category list of a successful result holds its entries in the
\* sequence in which the extractions were received; no two are reordered.
TextsOf(es) == [i \in 1..Len(es) |-> es[i].extraction_text]

C5_SameKeySet ==
  ner_pc = "returned" =>
    /\ DOMAIN ner_result \ {"error"} =
         {"names", "dates", "amounts", "locations", "organizations", "phones",
          "emails", "urls", "times", "positions", "id_numbers", "work_schedules",
          "notice_periods", "governing_laws"}
    /\ \A k \in DOMAIN ner_result \ {"error"} :
         \A i \in 1..Len(ner_result[k]) : ner_result[k][i] \in ModelTexts
    /\ "error" \in DOMAIN ner_result <=>
         \/ EmptyInput(ner_text)
         \/ ~api_key_available
         \/ ner_response.raises
         \/ ner_response.fails_after >= 0

\* a result of a completed call, with an entity in it
C5_Witness ==
  /\ Completed
  /\ ~lx_request.none
  /\ \E k \in CategoryKeys : ner_result[k] # <<>>

\* ---------------------------------------------------------------- C6
\* C6: every key the page reads from an extraction result when it renders or
\* exports it is a key of every mapping process_document returns, so showing
\* a stored result never fails on a missing key.
PresentationKeys ==
  {"contract_type", "names", "dates", "durations", "amounts", "locations",
   "phone_numbers", "word_count", "text_length", "language"}

C6_PresentationKeysPresent ==
  "current_extraction" \in DOMAIN session_state =>
    /\ PresentationKeys \subseteq DOMAIN session_state["current_extraction"]
    /\ results_tab.view # "KeyError"

\* ---------------------------------------------------------------- C7
\* C7: process_uploaded_file never raises and never returns partial text: it
\* returns None for no upload, for an unsupported extension and whenever the
\* reader it selects fails; a PDF one of whose pages cannot be read gives
\* None, not the text of the pages read before it.
Supported == {<<"p", "d", "f">>, <<"d", "o", "c", "x">>, <<"t", "x", "t">>}

\* the stream cannot be read or opened, or one of its pages cannot be read
DocumentFails(f) ==
  f.read_fails \/ ~f.doc.opens \/ \E i \in 1..Len(f.doc.units) : f.doc.units[i].fails

ReaderFails(f) ==
  \/ file_extension(f.name) \in {<<"p", "d", "f">>, <<"d", "o", "c", "x">>} /\ DocumentFails(f)
  \/ file_extension(f.name) = <<"t", "x", "t">> /\ f.read_fails

C7_NoPartialText ==
  file_pc = "returned" =>
    /\ ~file_run.raised
    /\ uploaded_file.none => file_run.value = None
    /\ ~uploaded_file.none /\ file_extension(uploaded_file.name) \notin Supported =>
         file_run.value = None
    /\ ~uploaded_file.none /\ ReaderFails(uploaded_file) => file_run.value = None

\* a PDF whose first page has text and whose second page cannot be read
C7_Witness ==
  /\ file_pc = "returned"
  /\ ~uploaded_file.none
  /\ file_extension(uploaded_file.name) = <<"p", "d", "f">>
  /\ uploaded_file.doc.opens
  /\ Len(uploaded_file.doc.units) = 2
  /\ ~uploaded_file.doc.units[1].fails
  /\ uploaded_file.doc.units[1].text = <<"a">>
  /\ uploaded_file.doc.units[2].fails
  /\ file_run.value = None

\* ---------------------------------------------------------------- C8
\* C8: current_extraction is in the session exactly when a 'process' action
\* has returned from process_document; until then the results tab and the
\* report tab show only the prompt to process a text first.
C8_ResultsOnlyAfterProcessing ==
  /\ "current_extraction" \in DOMAIN session_state <=> process_returns >= 1
  /\ "current_extraction" \notin DOMAIN session_state =>
       results_tab.view = "info" /\ report_tab.view = "info"
  /\ results_tab.view # "info" \/ report_tab.view # "info" => process_returns >= 1

\* a session after a 'process' action and a 'use this text' action
C8_Witness ==
  /\ process_returns >= 1
  /\ "current_extraction" \in DOMAIN session_state
  /\ results_tab.view # "info"
  /\ session_state["current_text"] # session_state["extraction_history"][process_returns].original_text

\* ---------------------------------------------------------------- C9
\* C9: an extraction of a recognised class with a non-empty text is in exactly
\* one list, that of its class, with its text unchanged; any other extraction
\* is in no list; the lists hold as many entries as there are such extractions.
Count(list, t) == Cardinality({j \in 1..Len(list) : list[j] = t})

RECURSIVE TotalLen(_, _)
TotalLen(m, keys) ==
  IF keys = {} THEN 0
  ELSE LET k == CHOOSE x \in keys : TRUE
       IN  Len(m[k]) + TotalLen(m, keys \ {k})

C9_ConversionPartitions ==
  Completed =>
    /\ \A k \in CategoryKeys :
         \A t \in ModelTexts \cup {Missing} :
           Count(ner_result[k], t) =
             Cardinality({i \in 1..Len(Received) :
                            Qualifies(Received[i], k) /\ Received[i].extraction_text = t})
    /\ TotalLen(ner_result, CategoryKeys) =
         Cardinality({i \in 1..Len(Received) :
                        \E k \in CategoryKeys : Qualifies(Received[i], k)})

\* an answer with an extraction that is kept and one that is dropped
C9_Witness ==
  /\ Completed
  /\ \E i, j \in 1..Len(Received) :
       /\ \E k \in CategoryKeys : Qualifies(Received[i], k)
       /\ \A k \in CategoryKeys : ~Qualifies(Received[j], k)
       /\ Received[j].extraction_text = "x"

\* ---------------------------------------------------------------- C10
\* C10: the output of clean_text has no leading or trailing whitespace, none
\* of the characters U+F8FF, U+FEFF, U+200B, no run of two or more whitespace
\* characters, and cleaning it again changes nothing.
HasDoubleSpace(s) == \E i \in 1..(Len(s) - 1) : IsSpace(s[i]) /\ IsSpace(s[i + 1])

C10_CleanTextNormalised ==
  /\ ct_pc # "input" =>
       /\ ct_out = strip(ct_out)
       /\ \A i \in 1..Len(ct_out) : ct_out[i] \notin {PUA, BOM, ZWSP}
       /\ ~HasDoubleSpace(ct_out)
  /\ ct_pc = "recleaned" => ct_out = ct_first

\* ---------------------------------------------------------------- C11
\* C11: the PDF reader is used only for names ending in '.pdf', the DOCX
\* reader only for names ending in '.docx', the TXT reader only for names
\* ending in '.txt', whatever the case of the letters; a file with another
\* extension or with no extension is given to no reader and None is returned.
EndsWith(name, suffix) ==
  /\ Len(name) >= Len(suffix)
  /\ SubSeq(lower(name), Len(name) - Len(suffix) + 1, Len(name)) = suffix

DotPdf == <<".", "p", "d", "f">>

DotDocx == <<".", "d", "o", "c", "x">>

DotTxt == <<".", "t", "x", "t">>

C11_ReaderByExtension ==
  file_pc = "returned" /\ ~uploaded_file.none =>
    /\ file_run.reader = "pdf" => EndsWith(uploaded_file.name, DotPdf)
    /\ file_run.reader = "docx" => EndsWith(uploaded_file.name, DotDocx)
    /\ file_run.reader = "txt" => EndsWith(uploaded_file.name, DotTxt)
    /\ (\A suffix \in {DotPdf, DotDocx, DotTxt} : ~EndsWith(uploaded_file.name, suffix)) =>
         file_run.reader = "none" /\ file_run.value = None

\* ---------------------------------------------------------------- C14
\* C14: the TXT reader tries UTF-8, then UTF-8 with BOM, then Windows-1256,
\* goes to the next only when the one before failed to decode, decodes the
\* whole content at every attempt, and returns the stripped text of the first
\* decoding that succeeds; a file that cannot be read gives None.
C14_DecodingsInOrder ==
  file_pc = "returned" /\ file_run.reader = "txt" =>
    IF uploaded_file.read_fails THEN file_run.value = None /\ ~file_run.raised
    ELSE LET n == Len(file_attempts)
         IN  /\ n \in 1..3
             /\ \A i \in 1..n :
                  /\ file_attempts[i].codec = <<"utf-8", "utf-8-sig", "windows-1256">>[i]
                  /\ file_attempts[i].data = uploaded_file.bytes
                  /\ file_attempts[i].ok = decode(file_attempts[i].codec, uploaded_file.bytes).ok
                  /\ i < n => ~file_attempts[i].ok
             /\ file_attempts[n].ok
             /\ file_run.value =
                  Str(strip(decode(file_attempts[n].codec, uploaded_file.bytes).text))

\* bytes that are not UTF-8, decoded at the third attempt
C14_Witness ==
  /\ file_pc = "returned"
  /\ file_run.reader = "txt"
  /\ Len(file_attempts) = 3
  /\ uploaded_file.bytes # <<>>
  /\ file_run.value = Str(decode_windows_1256(uploaded_file.bytes).text)
  /\ file_run.value.s # <<>>

\* ---------------------------------------------------------------- C12
\* C12: the history only grows by appending: no run removes or reorders an
\* item.  A 'process' action whose processing returns appends exactly one
\* item, holding the full input text and the result, and sets
\* current_extraction and current_text with it, whether or not the result is
\* an error result; one whose processing raises leaves the three unchanged.
\* The sidebar lists at most the five newest items, newest first.
IsPrefix(old, new) == Len(old) <= Len(new) /\ SubSeq(new, 1, Len(old)) = old

SidebarShowsNewest(history) ==
  LET shown == sidebar_items(history)
      n == Len(history)
  IN  /\ Len(shown) = IF n < 5 THEN n ELSE 5
      /\ \A i \in 1..Len(shown) : shown[i] = history[n + 1 - i]

C12_HistoryAppendOnly ==
  [][LET old == session_state["extraction_history"]
         new == session_state'["extraction_history"]
     IN  /\ IsPrefix(old, new)
         /\ last_run'.kind = "returned" =>
              /\ Len(new) = Len(old) + 1
              /\ new[Len(new)].original_text = last_run'.text
              /\ "current_extraction" \in DOMAIN session_state'
              /\ new[Len(new)].extraction_data = session_state'["current_extraction"]
              /\ session_state'["current_text"] = last_run'.text
         /\ last_run'.kind = "raised" => session_state' = session_state
         /\ last_run'.kind = "use" => new = old
         /\ SidebarShowsNewest(new)]_vars

\* a processing that raised, after more items than the sidebar shows, the
\* newest of them an error result
C12_Witness ==
  LET history == session_state["extraction_history"]
  IN  /\ Len(history) > HistoryShown
      /\ "error" \in DOMAIN history[Len(history)].extraction_data
      /\ "error" \notin DOMAIN history[1].extraction_data
      /\ last_run.kind = "raised"

\* ---------------------------------------------------------------- C13
\* C13: whenever the session holds both, current_text is the text from which
\* current_extraction was produced.  (current_extraction is the result of the
\* newest history item, whose original_text is the text it was produced from.)
C13_TextMatchesExtraction ==
  {"current_extraction", "current_text"} \subseteq DOMAIN session_state =>
    LET history == session_state["extraction_history"]
    IN  /\ history # <<>>
        /\ session_state["current_extraction"] = history[Len(history)].extraction_data
        /\ session_state["current_text"] = history[Len(history)].original_text

====
